---- MODULE Spec2Model ----
(***************************************************************************)
(* A model of frontmark/reader.py: FrontmarkReader, a Pelican reader for   *)
(* Markdown files with YAML frontmatter.                                   *)
(*                                                                         *)
(* Text is a sequence of one-character strings.  The YAML grammar and the  *)
(* Markdown engine are libraries outside the repository: the YAML composer *)
(* is an oracle (every source file comes with the node graph the composer  *)
(* yields for its frontmatter block), the Markdown engine wraps its input  *)
(* in a paragraph mark, so that rendering is visible and not idempotent.   *)
(***************************************************************************)
EXTENDS Integers, Sequences, FiniteSets, TLC

VARIABLES
    settings,       \* the host's settings objects, by identity
    orig,           \* ghost: the settings objects as the caller built them
    registered,     \* what the receivers of frontmark_yaml_register return
    files,          \* source_path -> what the file holds
    readers,        \* the FrontmarkReader objects, by identity
    instances,      \* the Markdown instances constructed so far
    yaml_Loader,    \* yaml.Loader.yaml_constructors, the class-level table
    th,             \* the host's threads: position and locals of a read call
    callCount,      \* read calls started so far
    renderLog,      \* ghost: every Markdown.convert call, in order
    parallel        \* whether the host runs read calls in parallel

vars == <<settings, orig, registered, files, readers, instances, yaml_Loader,
          th, callCount, renderLog, parallel>>

----------------------------------------------------------------------------
\* Bounds of the model.

MaxLines == 4
MaxPairs == 2
MaxRegs == 2
MaxCalls == 2
MaxExt == 2

----------------------------------------------------------------------------
\* Text.

LF == "\n"
Whitespace == {" ", LF}

DELIMITER == <<"-", "-", "-">>

MaxSplit == 2

STR_TAG == "tag:yaml.org,2002:str"
INT_TAG == "tag:yaml.org,2002:int"
MD_TAG == "!md"
EXT_TAG == "!ext"

Tags == {MD_TAG, STR_TAG, INT_TAG, EXT_TAG}

Min(S) == CHOOSE x \in S : \A y \in S : x <= y
Max(S) == CHOOSE x \in S : \A y \in S : x >= y

\* str.strip()
Strip(s) ==
    LET idx == {i \in 1..Len(s) : s[i] \notin Whitespace}
    IN  IF idx = {} THEN <<>> ELSE SubSeq(s, Min(idx), Max(idx))

\* a mutant of StartsWith: the delimiter is looked for anywhere in the text
Contains(s, p) == \E i \in 1..Len(s) : i + Len(p) - 1 <= Len(s) /\ SubSeq(s, i, i + Len(p) - 1) = p

\* str.startswith(p)
StartsWith(s, p) == Len(s) >= Len(p) /\ SubSeq(s, 1, Len(p)) = p

\* BOUNDARY = re.compile(r'^---$', re.MULTILINE) matches at position i
BoundaryAt(s, i) ==
    /\ i + Len(DELIMITER) - 1 <= Len(s)
    /\ SubSeq(s, i, i + Len(DELIMITER) - 1) = DELIMITER
    /\ IF i = 1 THEN TRUE ELSE s[i - 1] = LF
    /\ IF i + Len(DELIMITER) > Len(s) THEN TRUE ELSE s[i + Len(DELIMITER)] = LF

\* BOUNDARY.split(s, n), from position start on
RECURSIVE BoundarySplitFrom(_, _, _)
BoundarySplitFrom(s, start, n) ==
    LET ms == {i \in start..Len(s) : BoundaryAt(s, i)}
    IN  IF n = 0 \/ ms = {}
        THEN <<SubSeq(s, start, Len(s))>>
        ELSE <<SubSeq(s, start, Min(ms) - 1)>>
             \o BoundarySplitFrom(s, Min(ms) + Len(DELIMITER), n - 1)

BoundarySplit(s, n) == BoundarySplitFrom(s, 1, n)

\* Markdown.convert(text): an empty source gives '', any other a paragraph
MarkdownConvert(text) ==
    IF Strip(text) = <<>> THEN <<>> ELSE <<"<p>">> \o Strip(text) \o <<"</p>">>

\* FrontmarkReader._render
_render(text) == MarkdownConvert(text)

LowerChar(c) == CASE c = "T" -> "t" [] c = "S" -> "s" [] OTHER -> c

\* str.lower()
Lower(s) == [i \in 1..Len(s) |-> LowerChar(s[i])]

\* x in list
In(x, seq) == \E i \in 1..Len(seq) : seq[i] = x

----------------------------------------------------------------------------
\* Values.  A Python value is [type, chars]: a str, an int, or the object an
\* external handler returns (its type is the handler's name).

Str(chars) == [type |-> "str", chars |-> chars]

\* a mutant of OrderedDictSet: a key set again moves to the end
OrderedDictSetMoveToEnd(od, k, v) ==
    Append(SelectSeq(od, LAMBDA e : e[1] # k), <<k, v>>)

\* collections.OrderedDict.__setitem__: a known key keeps its position
OrderedDictSet(od, k, v) ==
    IF \E i \in 1..Len(od) : od[i][1] = k
    THEN [i \in 1..Len(od) |-> IF od[i][1] = k THEN <<k, v>> ELSE od[i]]
    ELSE Append(od, <<k, v>>)

\* collections.OrderedDict(pairs)
RECURSIVE OrderedDictOf(_, _)
OrderedDictOf(pairs, od) ==
    IF pairs = <<>> THEN od
    ELSE OrderedDictOf(Tail(pairs), OrderedDictSet(od, Head(pairs)[1], Head(pairs)[2]))

----------------------------------------------------------------------------
\* The tag handlers and the loader class.

NoRender == <<>>
Rendered(by, frag, out) == <<[by |-> by, frag |-> frag, out |-> out]>>

\* FrontmarkReader.yaml_markdown_constructor
yaml_markdown_constructor(node) ==
    [error |-> "", value |-> Str(Strip(_render(node.chars))),
     renders |-> Rendered("tag", node.chars, _render(node.chars))]

\* a mutant of yaml_multiline_as_markdown_constructor: every block style renders
yaml_any_block_as_markdown_constructor(node) ==
    IF node.style # ""
    THEN [error |-> "", value |-> Str(Strip(_render(node.chars))),
          renders |-> Rendered("tag", node.chars, _render(node.chars))]
    ELSE [error |-> "", value |-> Str(node.chars), renders |-> NoRender]

\* FrontmarkReader.yaml_multiline_as_markdown_constructor
yaml_multiline_as_markdown_constructor(node) ==
    IF node.style = "|"
    THEN [error |-> "", value |-> Str(Strip(_render(node.chars))),
          renders |-> Rendered("tag", node.chars, _render(node.chars))]
    ELSE [error |-> "", value |-> Str(node.chars), renders |-> NoRender]

\* yaml.Loader's own constructors, before any add_constructor
YamlLoaderConstructors ==
    [t \in Tags |-> CASE t = STR_TAG -> "construct_yaml_str"
                      [] t = INT_TAG -> "construct_yaml_int"
                      [] OTHER -> "construct_undefined"]

\* FrontmarkLoader.add_constructor(tag, constructor), on the class's own copy
add_constructor(table, tag, constructor) == [table EXCEPT ![tag] = constructor]

\* what add_constructor on the subclass leaves in the parent class yaml.Loader
ParentAfterSubclass(parent, subclass) == parent

\* self.settings.get('FRONTMARK_PARSE_LITERAL', True)
ParseLiteral(s) ==
    IF s.has_FRONTMARK_PARSE_LITERAL THEN s.FRONTMARK_PARSE_LITERAL ELSE TRUE

\* a mutant of RegisterPairs: a malformed pair ends the loop
RECURSIVE RegisterPairsBreak(_, _)
RegisterPairsBreak(pairs, acc) ==
    IF pairs = <<>> THEN acc
    ELSE LET pair == Head(pairs) IN
         IF ~(Len(pair) = 2)
         THEN [acc EXCEPT !.warnings = Append(@, pair)]
         ELSE RegisterPairsBreak(Tail(pairs),
                 [acc EXCEPT !.table = add_constructor(@, pair[1], pair[2])])

\* the loop over frontmark_yaml_register.send(self)
RECURSIVE RegisterPairs(_, _)
RegisterPairs(pairs, acc) ==
    IF pairs = <<>> THEN acc
    ELSE LET pair == Head(pairs) IN
         IF ~(Len(pair) = 2)
         THEN RegisterPairs(Tail(pairs),
                            [acc EXCEPT !.warnings = Append(@, pair)])
         ELSE RegisterPairs(Tail(pairs),
                            [acc EXCEPT !.table = add_constructor(@, pair[1], pair[2])])

\* FrontmarkReader.loader_class: the table of the new class and the warnings
loader_class(s, base, contributed) ==
    LET t1 == add_constructor(base, MD_TAG, "yaml_markdown_constructor")
        t2 == IF ParseLiteral(s)
              THEN add_constructor(t1, STR_TAG, "yaml_multiline_as_markdown_constructor")
              ELSE t1
    IN  RegisterPairs(contributed, [table |-> t2, warnings |-> <<>>])

\* yaml's construct_object for a scalar node: dispatch on the tag
construct_object(node, table) ==
    LET h == table[node.tag] IN
    CASE h = "construct_undefined" ->
           [error |-> "YAMLError", value |-> Str(<<>>), renders |-> NoRender]
      [] h = "yaml_markdown_constructor" -> yaml_markdown_constructor(node)
      [] h = "yaml_multiline_as_markdown_constructor" ->
           yaml_multiline_as_markdown_constructor(node)
      [] h = "construct_yaml_str" ->
           [error |-> "", value |-> Str(node.chars), renders |-> NoRender]
      [] h = "construct_yaml_int" ->
           [error |-> "", value |-> [type |-> "int", chars |-> node.chars],
            renders |-> NoRender]
      [] OTHER ->
           [error |-> "", value |-> [type |-> h, chars |-> node.chars],
            renders |-> NoRender]

\* the nodes of a document are constructed in source order, up to the first error
RECURSIVE ConstructAll(_, _, _)
ConstructAll(nodes, table, acc) ==
    IF nodes = <<>> \/ acc.error # "" THEN acc
    ELSE LET r == construct_object(Head(nodes), table) IN
         ConstructAll(Tail(nodes), table,
            [error |-> r.error,
             values |-> IF r.error = "" THEN Append(acc.values, r.value) ELSE acc.values,
             renders |-> acc.renders \o r.renders])

\* key and value nodes of a mapping node, in source order
RECURSIVE Flatten(_)
Flatten(pairs) ==
    IF pairs = <<>> THEN <<>>
    ELSE <<Head(pairs).key, Head(pairs).val>> \o Flatten(Tail(pairs))

\* construct_pairs: the constructed (key, value) list
Regroup(values) == [i \in 1..(Len(values) \div 2) |-> <<values[2 * i - 1], values[2 * i]>>]

\* FrontmarkLoader.construct_mapping
construct_mapping(pairs) == OrderedDictOf(pairs, <<>>)

EmptyNode == [kind |-> "empty", scalars |-> <<>>, pairs |-> <<>>]

\* the composer: a blank block holds no document
Compose(fm, node) == IF Strip(fm) = <<>> THEN EmptyNode ELSE node

\* yaml.load(fm, Loader=...): isdict tells whether the root is a mapping
YamlLoad(fm, node, table) ==
    LET root == Compose(fm, node)
        none == [error |-> "", isdict |-> FALSE, value |-> <<>>, pairs |-> <<>>,
                 renders |-> NoRender]
        start == [error |-> "", values |-> <<>>, renders |-> NoRender]
    IN  CASE root.kind = "error" -> [none EXCEPT !.error = "YAMLError"]
          [] root.kind = "empty" -> none
          [] root.kind = "mapping" ->
               LET c == ConstructAll(Flatten(root.pairs), table, start) IN
               [error |-> c.error, isdict |-> c.error = "",
                value |-> IF c.error = "" THEN construct_mapping(Regroup(c.values))
                          ELSE <<>>,
                pairs |-> Regroup(c.values), renders |-> c.renders]
          [] OTHER ->
               LET c == ConstructAll(root.scalars, table, start) IN
               [error |-> c.error, isdict |-> FALSE, value |-> <<>>,
                pairs |-> <<>>, renders |-> c.renders]

----------------------------------------------------------------------------
\* FrontmarkReader._parse and FrontmarkReader._parse_metadata.

\* FrontmarkReader._parse(text): the reader's settings object is s
_parse(raw, node, s, base, contributed) ==
    LET text == Strip(raw)
        segs == BoundarySplit(text, MaxSplit)
        bail == [error |-> "", metadata |-> <<>>, content |-> text, text |-> text,
                 built |-> FALSE, loaded |-> FALSE, table |-> base,
                 warnings |-> <<>>, pairs |-> <<>>, renders |-> NoRender]
    IN  IF ~StartsWith(text, DELIMITER) THEN bail
        ELSE IF Len(segs) # 3 THEN bail
        ELSE LET cls == loader_class(s, base, contributed)
                 y == YamlLoad(segs[2], node, cls.table)
             IN  [error |-> y.error,
                  metadata |-> IF y.isdict THEN y.value ELSE <<>>,
                  content |-> segs[3], text |-> text,
                  built |-> TRUE, loaded |-> TRUE, table |-> cls.table,
                  warnings |-> cls.warnings, pairs |-> y.pairs,
                  renders |-> y.renders]

\* a mutant of IsFormatted: the configured names are lowercased too
IsFormattedIgnoringCase(name, formatted_fields) ==
    \E i \in 1..Len(formatted_fields) : Lower(formatted_fields[i]) = name

\* name in formatted_fields
IsFormatted(name, formatted_fields) == In(name, formatted_fields)

\* BaseReader.process_metadata(name, value), the host's hook
process_metadata(name, value) == value

\* the loop of _parse_metadata, up to the first error
RECURSIVE ParseMetadataLoop(_, _, _)
ParseMetadataLoop(meta, formatted_fields, acc) ==
    IF meta = <<>> \/ acc.error # "" THEN acc
    ELSE LET key == Head(meta)[1]
             value == Head(meta)[2]
             name == Lower(key.chars)
         IN  IF key.type # "str"
             THEN [acc EXCEPT !.error = "AttributeError"]
             ELSE IF IsFormatted(name, formatted_fields)
             THEN IF value.type # "str"
                  THEN [acc EXCEPT !.error = "RenderFailure"]
                  ELSE LET rendered == Strip(_render(value.chars)) IN
                       ParseMetadataLoop(Tail(meta), formatted_fields,
                          [error |-> "",
                           output |-> OrderedDictSet(acc.output, name,
                                         process_metadata(name, Str(rendered))),
                           hooks |-> Append(acc.hooks, <<name, Str(rendered)>>),
                           renders |-> acc.renders
                              \o Rendered("field", value.chars, _render(value.chars))])
             ELSE ParseMetadataLoop(Tail(meta), formatted_fields,
                     [error |-> "",
                      output |-> OrderedDictSet(acc.output, name,
                                    process_metadata(name, value)),
                      hooks |-> Append(acc.hooks, <<name, value>>),
                      renders |-> acc.renders])

\* FrontmarkReader._parse_metadata(meta)
_parse_metadata(meta, s) ==
    ParseMetadataLoop(meta, s.FORMATTED_FIELDS,
        [error |-> "", output |-> <<>>, hooks |-> <<>>, renders |-> NoRender])

----------------------------------------------------------------------------
\* The reader objects and the read call.

BASELINE == "markdown.extensions.meta"

\* a mutant of AppendMissing: every key is appended, listed or not
RECURSIVE AppendAlways(_, _)
AppendAlways(keys, extensions) ==
    IF keys = <<>> THEN extensions
    ELSE AppendAlways(Tail(keys), Append(extensions, Head(keys)))

\* the loop over settings['extension_configs'].keys()
RECURSIVE AppendMissing(_, _)
AppendMissing(keys, extensions) ==
    IF keys = <<>> THEN extensions
    ELSE AppendMissing(Tail(keys),
            IF ~In(Head(keys), extensions) THEN Append(extensions, Head(keys))
            ELSE extensions)

\* FrontmarkReader.__init__ on settings['MARKDOWN'], which it changes in place
Normalize(m) ==
    LET configs == IF m.has_extension_configs THEN m.extension_configs ELSE <<>>
        exts == IF m.has_extensions THEN m.extensions ELSE <<>>
        withKeys == AppendMissing(configs, exts)
    IN  [has_extension_configs |-> TRUE, extension_configs |-> configs,
         has_extensions |-> TRUE,
         extensions |-> IF ~In(BASELINE, withKeys) THEN Append(withKeys, BASELINE)
                        ELSE withKeys]

\* the settings object the constructor works on: BaseReader keeps the caller's
SettingsAfterInit(s) == [s EXCEPT !.MARKDOWN = Normalize(s.MARKDOWN)]

Idle ==
    [pc |-> "idle", call |-> 0, reader |-> "", path |-> "",
     text |-> <<>>, metadata |-> <<>>, content |-> <<>>, built |-> FALSE,
     loaded |-> FALSE, table |-> YamlLoaderConstructors, warnings |-> <<>>,
     pairs |-> <<>>, hooks |-> <<>>, output |-> <<>>, rendered |-> <<>>,
     error |-> ""]

NoReader == [constructed |-> FALSE, settings |-> "", _md |-> 0, _source_path |-> ""]

MainThread == "t1"

\* ghost: the renders of one step, stamped with the call and the instance used
Stamp(renders, call, inst) ==
    [i \in 1..Len(renders) |->
        [call |-> call, inst |-> inst, by |-> renders[i].by,
         frag |-> renders[i].frag, out |-> renders[i].out]]

\* reader_class(settings): FrontmarkReader.__init__
Construct(r, sid) ==
    /\ ~readers[r].constructed
    /\ settings' = [settings EXCEPT ![sid] = SettingsAfterInit(settings[sid])]
    /\ readers' = [readers EXCEPT ![r] =
                      [constructed |-> TRUE, settings |-> sid, _md |-> 0,
                       _source_path |-> ""]]
    /\ UNCHANGED <<orig, registered, files, instances, yaml_Loader, th, callCount,
                   renderLog, parallel>>

\* read, the first two statements: self._source_path, self._md = Markdown(...)
ReadBegin(t, r, p) ==
    /\ th[t].pc \in {"idle", "done", "aborted"}
    /\ IF parallel THEN TRUE ELSE t = MainThread
    /\ callCount < MaxCalls
    /\ readers[r].constructed
    /\ callCount' = callCount + 1
    /\ instances' = Append(instances,
                       [call |-> callCount + 1,
                        config |-> settings[readers[r].settings].MARKDOWN])
    /\ readers' = [readers EXCEPT ![r]._source_path = p,
                                  ![r]._md = Len(instances) + 1]
    /\ th' = [th EXCEPT ![t] = [Idle EXCEPT !.pc = "parse", !.call = callCount + 1,
                                            !.reader = r, !.path = p]]
    /\ UNCHANGED <<settings, orig, registered, files, yaml_Loader, renderLog, parallel>>

\* read: with pelican_open(source_path) as text: self._parse(text)
ReadParse(t) ==
    /\ th[t].pc = "parse"
    /\ LET r == th[t].reader
           f == files[th[t].path]
           res == _parse(f.text, f.node, settings[readers[r].settings],
                         yaml_Loader, registered)
       IN  /\ th' = [th EXCEPT ![t].pc = IF res.error = "" THEN "render" ELSE "aborted",
                               ![t].error = res.error,
                               ![t].text = res.text,
                               ![t].metadata = res.metadata,
                               ![t].content = res.content,
                               ![t].built = res.built,
                               ![t].loaded = res.loaded,
                               ![t].table = res.table,
                               ![t].warnings = res.warnings,
                               ![t].pairs = res.pairs]
           /\ renderLog' = renderLog \o Stamp(res.renders, th[t].call, readers[r]._md)
           /\ yaml_Loader' = IF res.built
                             THEN ParentAfterSubclass(yaml_Loader, res.table)
                             ELSE yaml_Loader
    /\ UNCHANGED <<settings, orig, registered, files, readers, instances, callCount,
                   parallel>>

\* read: content = self._render(content)
ReadRender(t) ==
    /\ th[t].pc = "render"
    /\ th' = [th EXCEPT ![t].pc = "meta",
                        ![t].rendered = _render(th[t].content)]
    /\ renderLog' = renderLog
          \o Stamp(Rendered("body", th[t].content, _render(th[t].content)),
                   th[t].call, readers[th[t].reader]._md)
    /\ UNCHANGED <<settings, orig, registered, files, readers, instances, yaml_Loader,
                   callCount, parallel>>

\* read: return content.strip(), self._parse_metadata(metadata)
ReadReturn(t) ==
    /\ th[t].pc = "meta"
    /\ LET r == th[t].reader
           res == _parse_metadata(th[t].metadata, settings[readers[r].settings])
       IN  /\ th' = [th EXCEPT ![t].pc = IF res.error = "" THEN "done" ELSE "aborted",
                               ![t].error = res.error,
                               ![t].rendered = Strip(th[t].rendered),
                               ![t].hooks = res.hooks,
                               ![t].output = res.output]
           /\ renderLog' = renderLog \o Stamp(res.renders, th[t].call, readers[r]._md)
    /\ UNCHANGED <<settings, orig, registered, files, readers, instances, yaml_Loader,
                   callCount, parallel>>

Next ==
    \/ \E r \in DOMAIN readers, sid \in DOMAIN settings : Construct(r, sid)
    \/ \E t \in DOMAIN th, r \in DOMAIN readers, p \in DOMAIN files : ReadBegin(t, r, p)
    \/ \E t \in DOMAIN th : ReadParse(t)
    \/ \E t \in DOMAIN th : ReadRender(t)
    \/ \E t \in DOMAIN th : ReadReturn(t)

----------------------------------------------------------------------------
\* Initial states: what the host hands to the readers.

InitWith(S, regs, F, RS, TS, par) ==
    /\ settings = S
    /\ orig = S
    /\ registered = regs
    /\ files = F
    /\ readers = [r \in RS |-> NoReader]
    /\ instances = <<>>
    /\ yaml_Loader = YamlLoaderConstructors
    /\ th = [t \in TS |-> Idle]
    /\ callCount = 0
    /\ renderLog = <<>>
    /\ parallel = par

SeqsUpTo(S, n) == UNION {[1..k -> S] : k \in 0..n}

RECURSIVE JoinLines(_)
JoinLines(ls) ==
    IF ls = <<>> THEN <<>>
    ELSE IF Len(ls) = 1 THEN ls[1]
    ELSE ls[1] \o <<LF>> \o JoinLines(Tail(ls))

Markdown0 ==
    [has_extension_configs |-> TRUE, extension_configs |-> <<"e1">>,
     has_extensions |-> FALSE, extensions |-> <<>>]

SettingsOf(md, ff, hasPL, pl) ==
    [MARKDOWN |-> md, FORMATTED_FIELDS |-> ff,
     has_FRONTMARK_PARSE_LITERAL |-> hasPL, FRONTMARK_PARSE_LITERAL |-> pl]

DefaultSettings == SettingsOf(Markdown0, <<<<"s">>>>, FALSE, TRUE)

Scalar(tag, style, chars) == [tag |-> tag, style |-> style, chars |-> chars]
Pair(k, v) == [key |-> k, val |-> v]
Mapping(pairs) == [kind |-> "mapping", scalars |-> <<>>, pairs |-> pairs]
ScalarRoot(n) == [kind |-> "scalar", scalars |-> <<n>>, pairs |-> <<>>]
SequenceRoot(ns) == [kind |-> "sequence", scalars |-> ns, pairs |-> <<>>]
ErrorNode == [kind |-> "error", scalars |-> <<>>, pairs |-> <<>>]

kT == Scalar(STR_TAG, "", <<"T">>)
kt == Scalar(STR_TAG, "", <<"t">>)
ks == Scalar(STR_TAG, "", <<"s">>)
k1 == Scalar(INT_TAG, "", <<"1">>)
vPlain == Scalar(STR_TAG, "", <<"x">>)
vMd == Scalar(MD_TAG, "", <<"*">>)
vLit == Scalar(STR_TAG, "|", <<"#">>)
vFold == Scalar(STR_TAG, ">", <<"y">>)
vInt == Scalar(INT_TAG, "", <<"7">>)
vExt == Scalar(EXT_TAG, "", <<"z">>)

\* a document with a frontmatter block and a body
FrontText == JoinLines(<<DELIMITER, <<"m">>, DELIMITER, <<"b">>>>)

\* the documents of the splitter: every text of up to MaxLines lines
SplitLines == {DELIMITER, <<"-", "-", "-", "x">>, <<" ", "-", "-", "-">>, <<"a">>, <<>>}
SplitNodes == {Mapping(<<Pair(kt, vPlain)>>), ScalarRoot(vPlain)}

InitSplit ==
    \E ls \in SeqsUpTo(SplitLines, MaxLines), node \in SplitNodes :
        InitWith([sid \in {"s1"} |-> DefaultSettings], <<>>,
                 [p \in {"p1"} |-> [text |-> JoinLines(ls), node |-> node]],
                 {"r1"}, {"t1"}, FALSE)

\* the metadata blocks of the loader and the field post-processor
MetaEntries ==
    {Pair(kT, vPlain), Pair(kt, vMd), Pair(kt, vFold),
     Pair(ks, vMd), Pair(ks, vPlain), Pair(ks, vLit), Pair(ks, vInt),
     Pair(k1, vPlain)}
MetaNodes ==
    {Mapping(ps) : ps \in SeqsUpTo(MetaEntries, MaxPairs)}
    \cup {ErrorNode, ScalarRoot(vMd), ScalarRoot(vPlain), SequenceRoot(<<vPlain, vLit>>)}
FormattedFieldsChoices == {<<>>, <<<<"s">>>>, <<<<"S">>, <<"t">>>>}

InitMeta ==
    \E node \in MetaNodes, ff \in FormattedFieldsChoices,
       pl \in {<<FALSE, TRUE>>, <<TRUE, TRUE>>, <<TRUE, FALSE>>},
       regs \in {<<>>, <<<<MD_TAG, "h1">>>>} :
        InitWith([sid \in {"s1"} |-> SettingsOf(Markdown0, ff, pl[1], pl[2])], regs,
                 [p \in {"p1"} |-> [text |-> FrontText, node |-> node]],
                 {"r1"}, {"t1"}, FALSE)

\* metadata blocks whose keys repeat
MaxKeys == 3
OrderEntries == {Pair(kT, vPlain), Pair(kt, vMd), Pair(ks, vLit), Pair(kt, vInt)}

InitOrder ==
    \E ps \in SeqsUpTo(OrderEntries, MaxKeys) :
        InitWith([sid \in {"s1"} |-> DefaultSettings], <<>>,
                 [p \in {"p1"} |-> [text |-> FrontText, node |-> Mapping(ps)]],
                 {"r1"}, {"t1"}, FALSE)

\* what the receivers of the signal contribute
Contributions ==
    {<<MD_TAG, "h1">>, <<STR_TAG, "h1">>, <<EXT_TAG, "h2">>, <<EXT_TAG, "h1">>,
     <<EXT_TAG>>, <<EXT_TAG, "h2", "extra">>}
RegNode == Mapping(<<Pair(kt, vMd), Pair(ks, vLit), Pair(kT, vExt)>>)

InitReg ==
    \E regs \in SeqsUpTo(Contributions, MaxRegs) :
        InitWith([sid \in {"s1", "s2"} |->
                     SettingsOf(Markdown0, <<>>, sid = "s2", FALSE)], regs,
                 [p \in {"p1"} |-> [text |-> FrontText, node |-> RegNode]],
                 {"r1", "r2"}, {"t1"}, FALSE)

\* two documents read by two threads of the host
InitConc ==
    \E rs \in {{"r1"}, {"r1", "r2"}} :
        InitWith([sid \in {"s1"} |-> DefaultSettings], <<>>,
                 [p \in {"p1", "p2"} |->
                     IF p = "p1"
                     THEN [text |-> FrontText, node |-> Mapping(<<Pair(ks, vMd)>>)]
                     ELSE [text |-> <<"c">>, node |-> EmptyNode]],
                 rs, {"t1", "t2"}, TRUE)

\* the MARKDOWN settings the caller may hand over
ExtNames == {"e1", "e2", BASELINE}
Injective(q) == \A i, j \in 1..Len(q) : q[i] = q[j] => i = j
MarkdownChoices ==
    {[has_extension_configs |-> hc, extension_configs |-> c,
      has_extensions |-> he, extensions |-> e] :
        hc \in BOOLEAN, he \in BOOLEAN,
        c \in {q \in SeqsUpTo(ExtNames, MaxExt) : Injective(q)},
        e \in SeqsUpTo(ExtNames, MaxExt)}

InitInit ==
    \E md \in {m \in MarkdownChoices :
                  /\ (~m.has_extension_configs => m.extension_configs = <<>>)
                  /\ (~m.has_extensions => m.extensions = <<>>)} :
        InitWith([sid \in {"s1"} |-> SettingsOf(md, <<>>, FALSE, TRUE)], <<>>,
                 [p \in {"p1"} |-> [text |-> <<"c">>, node |-> EmptyNode]],
                 {"r1", "r2"}, {"t1"}, FALSE)

Init == InitMeta

Spec == Init /\ [][Next]_vars
SpecSplit == InitSplit /\ [][Next]_vars
SpecOrder == InitOrder /\ [][Next]_vars
SpecReg == InitReg /\ [][Next]_vars
SpecConc == InitConc /\ [][Next]_vars
SpecInit == InitInit /\ [][Next]_vars

----------------------------------------------------------------------------
\* Properties.

BeginsWithDelimiter(s) == Len(s) >= 3 /\ s[1] = "-" /\ s[2] = "-" /\ s[3] = "-"

\* the lines of a text
RECURSIVE LinesOf(_, _)
LinesOf(s, line) ==
    IF s = <<>> THEN <<line>>
    ELSE IF Head(s) = LF THEN <<line>> \o LinesOf(Tail(s), <<>>)
    ELSE LinesOf(Tail(s), Append(line, Head(s)))

DelimiterLines(s) == {i \in 1..Len(LinesOf(s, <<>>)) : LinesOf(s, <<>>)[i] = DELIMITER}

\* the split has the shape (empty leading segment, metadata block, body)
FrontmatterShape(s) == 1 \in DelimiterLines(s) /\ Cardinality(DelimiterLines(s)) = 2

\* C1: a text whose trimmed form does not start with the delimiter is never
\* parsed: _parse returns (empty metadata, trimmed text), neither the loader
\* class is built nor yaml.load called, and read returns the rendered trimmed
\* text, stripped, with an empty mapping.
C1_NoDelimiterNoParsing ==
    \A t \in DOMAIN th :
        LET c == th[t]
            trimmed == Strip(files[c.path].text)
        IN  (c.pc \notin {"idle", "parse"} /\ ~BeginsWithDelimiter(trimmed)) =>
              /\ c.pc # "aborted"
              /\ c.metadata = <<>>
              /\ c.content = trimmed
              /\ ~c.loaded
              /\ ~c.built
              /\ (c.pc = "done" =>
                    /\ c.rendered = Strip(MarkdownConvert(trimmed))
                    /\ c.output = <<>>)

\* a finished read of a text that holds two delimiter lines, not at its start
C1_Witness ==
    \E t \in DOMAIN th :
        /\ th[t].pc = "done"
        /\ ~BeginsWithDelimiter(Strip(files[th[t].path].text))
        /\ Cardinality(DelimiterLines(Strip(files[th[t].path].text))) = 2
        /\ th[t].rendered # <<>>

\* C2: a trimmed text that starts with the delimiter but has not exactly the
\* shape (empty leading segment, metadata block, body) -- fewer or more than two
\* delimiter lines, or a first line such as '---x' -- falls back to (empty
\* metadata, entire trimmed text): nothing is parsed, nothing is dropped.
C2_FallbackKeepsText ==
    \A t \in DOMAIN th :
        LET c == th[t]
            trimmed == Strip(files[c.path].text)
        IN  (c.pc \notin {"idle", "parse"} /\ BeginsWithDelimiter(trimmed)
                /\ ~FrontmatterShape(trimmed)) =>
              /\ c.metadata = <<>>
              /\ c.content = trimmed
              /\ ~c.loaded

IsLowercase(name) == \A i \in 1..Len(name) : name[i] \notin {"T", "S"}

RECURSIVE FirstSeen(_, _)
FirstSeen(names, acc) ==
    IF names = <<>> THEN acc
    ELSE FirstSeen(Tail(names), IF In(Head(names), acc) THEN acc ELSE Append(acc, Head(names)))

\* a value without the marks of the renderer
Core(chars) == SelectSeq(chars, LAMBDA ch : ch \notin {"<p>", "</p>"})

HookGiven(c, i, formatted) ==
    <<Lower(c.metadata[i][1].chars),
      IF formatted THEN Str(Strip(MarkdownConvert(c.metadata[i][2].chars)))
      ELSE c.metadata[i][2]>>

FormattedFieldsOf(c) == settings[readers[c.reader].settings].FORMATTED_FIELDS

\* C4, as claimed: a value is rendered and trimmed before the hook exactly when
\* its key matches a name of formatted_fields ignoring the case of both the key
\* and the configured name; every other value reaches the hook unchanged.
C4_Original ==
    \A t \in DOMAIN th :
        LET c == th[t] IN
        c.pc = "done" =>
            /\ Len(c.hooks) = Len(c.metadata)
            /\ \A i \in 1..Len(c.metadata) :
                  c.hooks[i] = HookGiven(c, i,
                      \E k \in 1..Len(FormattedFieldsOf(c)) :
                          Lower(FormattedFieldsOf(c)[k]) = Lower(c.metadata[i][1].chars))

\* C4, amended: a value is rendered and trimmed before the hook exactly when
\* its lowercased key is an element of formatted_fields as configured (the
\* configured names are compared as written); every other value reaches the
\* hook unrendered and unchanged.
C4_Amended ==
    \A t \in DOMAIN th :
        LET c == th[t] IN
        c.pc = "done" =>
            /\ Len(c.hooks) = Len(c.metadata)
            /\ \A i \in 1..Len(c.metadata) :
                  c.hooks[i] = HookGiven(c, i,
                      \E k \in 1..Len(FormattedFieldsOf(c)) :
                          FormattedFieldsOf(c)[k] = Lower(c.metadata[i][1].chars))

\* 'S' and 't' are configured: the value of key 'T' is rendered, that of 's' not
C4_Witness ==
    \E t \in DOMAIN th :
        /\ th[t].pc = "done"
        /\ FormattedFieldsOf(th[t]) = <<<<"S">>, <<"t">>>>
        /\ th[t].metadata = <<<<Str(<<"T">>), Str(<<"x">>)>>, <<Str(<<"s">>), Str(<<"x">>)>>>>
        /\ th[t].hooks = <<<<<<"t">>, Str(<<"<p>", "x", "</p>">>)>>,
                           <<<<"s">>, Str(<<"x">>)>>>>

ParseLiteralOn(c) ==
    LET s == settings[readers[c.reader].settings]
    IN  IF s.has_FRONTMARK_PARSE_LITERAL THEN s.FRONTMARK_PARSE_LITERAL ELSE TRUE

\* no receiver contributes a handler for the tag
Uncontributed(tag) ==
    \A i \in 1..Len(registered) : Len(registered[i]) = 2 => registered[i][1] # tag

\* C5: with the default handlers, a scalar tagged '!md' is rendered and trimmed
\* whatever FRONTMARK_PARSE_LITERAL is; an untagged string scalar is rendered
\* and trimmed only if it is in literal block style and the option is on (the
\* default), and is returned verbatim otherwise.
C5_TagHandlers ==
    \A t \in DOMAIN th :
        LET c == th[t]
            src == files[c.path].node.pairs
        IN  (c.loaded /\ Len(c.pairs) = Len(src)) =>
              \A i \in 1..Len(src) :
                 LET n == src[i].val
                     got == c.pairs[i][2]
                     rendered == Str(Strip(MarkdownConvert(n.chars)))
                 IN  /\ (n.tag = MD_TAG /\ Uncontributed(MD_TAG)) => got = rendered
                     /\ (n.tag = STR_TAG /\ Uncontributed(STR_TAG)) =>
                           got = IF n.style = "|" /\ ParseLiteralOn(c)
                                 THEN rendered ELSE Str(n.chars)

\* the option is off: the '!md' value is rendered, the literal block is not
C5_Witness ==
    \E t \in DOMAIN th :
        /\ th[t].loaded
        /\ ~ParseLiteralOn(th[t])
        /\ files[th[t].path].node.pairs = <<Pair(kt, vMd), Pair(ks, vLit)>>
        /\ th[t].pairs = <<<<Str(<<"t">>), Str(<<"<p>", "*", "</p>">>)>>,
                           <<Str(<<"s">>), Str(<<"#">>)>>>>

\* the registrations in order: the defaults, then the well-formed contributions
RegistrationOrder(c) ==
    <<<<MD_TAG, "yaml_markdown_constructor">>>>
    \o (IF ParseLiteralOn(c)
        THEN <<<<STR_TAG, "yaml_multiline_as_markdown_constructor">>>> ELSE <<>>)
    \o SelectSeq(registered, LAMBDA pair : Len(pair) = 2)

\* C6: the table of a call is rebuilt from scratch: the defaults ('!md', and
\* the string tag when FRONTMARK_PARSE_LITERAL is on), then each contributed
\* pair in order; a pair that has not two elements is skipped with a warning
\* and the pairs after it are registered; for each tag the last registration
\* is in effect; nothing of an earlier call's table carries over.
C6_SnapshotRebuilt ==
    /\ yaml_Loader = YamlLoaderConstructors
    /\ \A t \in DOMAIN th :
          LET c == th[t]
              order == RegistrationOrder(c)
          IN  c.built =>
                /\ \A tag \in Tags :
                      LET idx == {i \in 1..Len(order) : order[i][1] = tag}
                      IN  c.table[tag] = IF idx = {} THEN YamlLoaderConstructors[tag]
                                         ELSE order[Max(idx)][2]
                /\ c.warnings = SelectSeq(registered, LAMBDA pair : Len(pair) # 2)

\* a malformed pair, then a handler for '!md' that replaces the default
C6_Witness ==
    \E t \in DOMAIN th :
        /\ th[t].built
        /\ registered = <<<<EXT_TAG>>, <<MD_TAG, "h1">>>>
        /\ th[t].table[MD_TAG] = "h1"
        /\ th[t].warnings = <<<<EXT_TAG>>>>

\* C7: a read call aborts only on malformed metadata syntax or a failure of
\* the renderer; on every other input it returns, with the fully parsed
\* mapping or the empty one.
C7_OnlySyntaxOrRenderAborts ==
    \A t \in DOMAIN th :
        /\ th[t].pc = "aborted" => th[t].error \in {"YAMLError", "RenderFailure"}
        /\ th[t].pc = "done" =>
              IF files[th[t].path].node.kind = "mapping"
              THEN [i \in 1..Len(th[t].output) |-> th[t].output[i][1]]
                      = FirstSeen([i \in 1..Len(files[th[t].path].node.pairs) |->
                                     Lower(files[th[t].path].node.pairs[i].key.chars)], <<>>)
              ELSE th[t].output = <<>>

\* C8: within one read call no fragment goes through the renderer twice: the
\* body is rendered once and the output of a render is never rendered again.
C8_NoDoubleRender ==
    \A i, j \in 1..Len(renderLog) :
        (i < j /\ renderLog[i].call = renderLog[j].call) =>
            /\ ~(renderLog[i].by = "body" /\ renderLog[j].by = "body")
            /\ (renderLog[i].out # <<>> => renderLog[j].frag # renderLog[i].out)

\* C9: every fragment rendered for a read call is rendered by the Markdown
\* instance that this call constructed.
C9_OwnRenderer ==
    \A i \in 1..Len(renderLog) :
        instances[renderLog[i].inst].call = renderLog[i].call

Count(seq, x) == Cardinality({i \in 1..Len(seq) : seq[i] = x})

ConstructedOn(sid) == \E r \in DOMAIN readers : readers[r].constructed /\ readers[r].settings = sid

OrigExtensions(sid) ==
    IF orig[sid].MARKDOWN.has_extensions THEN orig[sid].MARKDOWN.extensions ELSE <<>>

OrigConfigs(sid) ==
    IF orig[sid].MARKDOWN.has_extension_configs
    THEN orig[sid].MARKDOWN.extension_configs ELSE <<>>

Required(sid) == {OrigConfigs(sid)[i] : i \in 1..Len(OrigConfigs(sid))} \cup {BASELINE}

\* C10, as claimed: constructing readers leaves the caller's MARKDOWN settings
\* as they were, and the configuration in effect lists every key of
\* extension_configs and the baseline extension exactly once.
C10_Original ==
    \A sid \in DOMAIN settings :
        ConstructedOn(sid) =>
            /\ settings[sid].MARKDOWN = orig[sid].MARKDOWN
            /\ \A i \in 1..Len(instances) : \A x \in Required(sid) :
                  Count(instances[i].config.extensions, x) = 1

\* C10, amended: constructing a reader normalizes the caller's MARKDOWN
\* settings in place: both keys exist, extension_configs keeps its keys,
\* 'extensions' is the caller's sequence followed by each key of
\* extension_configs it lacked and then by the baseline extension if lacking;
\* each of these names occurs once unless the caller listed it several times;
\* further readers constructed from the same settings change nothing, and
\* every renderer is built from this configuration.
C10_Amended ==
    \A sid \in DOMAIN settings :
        LET m == settings[sid].MARKDOWN
            oe == OrigExtensions(sid)
            oc == OrigConfigs(sid)
            lacking == SelectSeq(oc, LAMBDA k : ~In(k, oe))
        IN  ConstructedOn(sid) =>
              /\ m.has_extensions /\ m.has_extension_configs
              /\ m.extension_configs = oc
              /\ m.extensions = oe \o lacking
                    \o (IF In(BASELINE, oe \o lacking) THEN <<>> ELSE <<BASELINE>>)
              /\ \A x \in Required(sid) :
                    Count(m.extensions, x) = IF In(x, oe) THEN Count(oe, x) ELSE 1
              /\ \A i \in 1..Len(instances) : instances[i].config = m

\* two readers from settings without 'extensions': the caller's object changed
C10_Witness ==
    /\ \A r \in DOMAIN readers : readers[r].constructed
    /\ Cardinality(DOMAIN readers) = 2
    /\ ~orig["s1"].MARKDOWN.has_extensions
    /\ orig["s1"].MARKDOWN.extension_configs = <<"e2", "e1">>
    /\ settings["s1"].MARKDOWN.extensions = <<"e2", "e1", BASELINE>>
    /\ Len(instances) = 2

====
